---- MODULE Spec2Model ----
(***************************************************************************)
(* The expense form of src/src/components/Form.tsx: a React function       *)
(* component holding the expense list and the category filter in useState, *)
(* a react-hook-form form with per-field rules, and a table whose rows     *)
(* carry a delete button.                                                  *)
(*                                                                         *)
(* A step of the model is one user action with everything it sets off:     *)
(* the event handler, the continuations of handleSubmit(onSubmit) after    *)
(* its awaits, the state updates and the render that follows them all run  *)
(* to the end before the next input event is taken. The handlers of a      *)
(* render read the `expenses` and `filterCategory` of that render.         *)
(*                                                                         *)
(* Each render gives the table one row per record of the filtered list,    *)
(* keyed by the record's id. When rows of the render before share a key,   *)
(* React may leave one of them on the page: it is then no row of a later   *)
(* render, and its delete button keeps the list of the render that made    *)
(* it. Such rows go when the table is taken off the page.                  *)
(*                                                                         *)
(* The <form> has no noValidate, so a click on Submit fires the submit     *)
(* event only when the browser's own validation of the inputs passes.      *)
(*                                                                         *)
(* Amounts are counted in thousandths (0.01 is 10, 10000 is 10000000), a   *)
(* text is a sequence of one-character strings, and the value of an input  *)
(* element is <<>> when the element is empty and <<n>> when it holds n.    *)
(* The categories "食品", "交通", "娱乐" are written food, transport,      *)
(* entertainment.                                                          *)
(***************************************************************************)
EXTENDS Integers, Sequences, FiniteSets

VARIABLES
    expenses,          \* useState: the expense list
    filterCategory,    \* useState: the category filter
    fields,            \* react-hook-form: the values of the three form fields
    errors,            \* react-hook-form: formState.errors, "" for a field without error
    submitted,         \* react-hook-form: formState.isSubmitted
    staleRows,         \* the rows of earlier renders that stayed on the page
    now,               \* the value Date.now() returns
    assigned,          \* history: the ids onSubmit has assigned, in order
    accepted,          \* history: the accepted records not deleted since, in order
    lastEvent          \* history: the user action taken last

vars == <<expenses, filterCategory, fields, errors, submitted, staleRows, now, assigned,
          accepted, lastEvent>>

----------------------------------------------------------------------------
(* Bounds of the model *)

\* onSubmit runs at most MaxSubmits times in a run.
MaxSubmits == 3

\* In a run that exercises the form, onSubmit runs at most MaxFormSubmits times.
MaxFormSubmits == 2

\* Date.now() ranges over 1..MaxClock.
MaxClock == 2

----------------------------------------------------------------------------
(* Constants of the program *)

MinLength == 2

MaxLength == 50

MinAmount == 10

MaxAmount == 10000000

\* step="0.01" and min="0" of the amount input
AmountStep == 10

AmountFloor == 0

Categories == {"food", "transport", "entertainment"}

DefaultValues == [description |-> <<>>, amount |-> <<0>>, category |-> ""]

NoErrors == [description |-> "", amount |-> "", category |-> ""]

----------------------------------------------------------------------------
(* Inputs *)

Rep(c, n) == [i \in 1..n |-> c]

\* What may be typed into the description input.
Descriptions ==
    {Rep("a", n) : n \in {0, 1, MinLength, MaxLength, MaxLength + 1}}
        \cup {Rep(" ", n) : n \in {1, MinLength}}

\* What may be typed into the amount input: nothing, -0.01, 0, 0.005, 0.01,
\* 10000.01.
Amounts ==
    {<<>>, <<AmountFloor - AmountStep>>, <<0>>, <<MinAmount - 5>>, <<MinAmount>>,
     <<MaxAmount + AmountStep>>}

\* What may be assigned to the category <select>.
CategoryInputs == {"", "food", "other"}

FormInputs ==
    ({"description"} \X Descriptions) \cup ({"amount"} \X Amounts)
        \cup ({"category"} \X CategoryInputs)

\* The inputs of the runs that exercise the list: valid values.
ListInputs ==
    ({"description"} \X {Rep("a", MinLength)})
        \cup ({"amount"} \X {<<MinAmount>>})
        \cup ({"category"} \X {"food", "transport"})

\* What the filter <select> is set to in the runs that exercise the list.
FilterInputs == {"", "food", "transport"}

----------------------------------------------------------------------------
(* The form: the browser's and react-hook-form's rules as Form sets them *)

\* A <select> holds one of its options: assigning another value selects none.
SelectValue(v) == IF v \in Categories THEN v ELSE ""

\* The browser's own validation of the form (it has no noValidate): the amount
\* input has min="0" and step="0.01", and no other constraint is set.
NativeValid(f) ==
    IF f.amount = <<>> THEN TRUE
    ELSE /\ f.amount[1] >= AmountFloor
         /\ (f.amount[1] - AmountFloor) % AmountStep = 0

\* ValidateDescription without the maxLength rule.
ValidateDescriptionNoMax(v) ==
    IF v = <<>> THEN "required"
    ELSE IF Len(v) < MinLength THEN "minLength"
    ELSE ""

ValidateDescription(v) ==
    IF v = <<>> THEN "required"
    ELSE IF Len(v) > MaxLength THEN "maxLength"
    ELSE IF Len(v) < MinLength THEN "minLength"
    ELSE ""

\* ValidateAmount without the min rule.
ValidateAmountNoMin(v) ==
    IF v = <<>> THEN "required"
    ELSE IF v[1] > MaxAmount THEN "max"
    ELSE ""

ValidateAmount(v) ==
    IF v = <<>> THEN "required"
    ELSE IF v[1] > MaxAmount THEN "max"
    ELSE IF v[1] < MinAmount THEN "min"
    ELSE ""

ValidateCategory(v) == IF v = "" THEN "required" ELSE ""

ValidateField(name, v) ==
    IF name = "description" THEN ValidateDescription(v)
    ELSE IF name = "amount" THEN ValidateAmount(v)
    ELSE ValidateCategory(v)

\* The errors handleSubmit finds in the values.
Validate(f) ==
    [description |-> ValidateDescription(f.description),
     amount |-> ValidateAmount(f.amount),
     category |-> ValidateCategory(f.category)]

----------------------------------------------------------------------------
(* The list *)

\* NewExpense with the category left out.
NewExpenseNoCategory(id, data) ==
    [id |-> id, description |-> data.description, amount |-> data.amount,
     category |-> ""]

NewExpense(id, data) ==
    [id |-> id, description |-> data.description, amount |-> data.amount,
     category |-> data.category]

WithoutId(list, id) ==
    LET Keep(e) == e.id # id
    IN SelectSeq(list, Keep)

VisibleExpenses(list, filter) ==
    LET Shown(e) == filter = "" \/ e.category = filter
    IN SelectSeq(list, Shown)

\* The rows the last render made: one per record of the filtered list, with
\* key={expense.id}.
Rows == VisibleExpenses(expenses, filterCategory)

Ids(list) == {list[k].id : k \in 1..Len(list)}

\* The number of leading rows of old and new whose keys agree one by one.
RECURSIVE SameKeys(_, _)
SameKeys(old, new) ==
    IF old = <<>> \/ new = <<>> THEN 0
    ELSE IF Head(old).id # Head(new).id THEN 0
    ELSE 1 + SameKeys(Tail(old), Tail(new))

\* The rows of the render before that React can leave on the page when it
\* sets the new rows against them: it passes the leading rows whose keys
\* agree; when rows are left on both sides it looks the old ones up by key,
\* where a later row of a key hides an earlier one of the same key, which is
\* then neither used again nor removed. A row keeps the `expense` and the
\* `expenses` its delete button was made with.
LeftOver(old, new, list) ==
    LET p == SameKeys(old, new)
    IN IF p = Len(old) \/ p = Len(new) THEN {}
       ELSE {[expense |-> old[k], expenses |-> list] :
                k \in {j \in (p + 1)..Len(old) :
                          \E m \in (j + 1)..Len(old) : old[m].id = old[j].id}}

----------------------------------------------------------------------------
(* The histories *)

\* The user action taken last: its type; for a delete the id and whether the
\* list had it; for a click on Submit whether the submit event was fired.
Event(type, id, present, fired) ==
    [type |-> type, id |-> id, present |-> present, fired |-> fired]

\* The records of a list that a delete of id does not ask to remove.
RECURSIVE NotDeleted(_, _)
NotDeleted(list, id) ==
    IF list = <<>> THEN <<>>
    ELSE IF Head(list).id = id THEN NotDeleted(Tail(list), id)
    ELSE <<Head(list)>> \o NotDeleted(Tail(list), id)

----------------------------------------------------------------------------
(* The state machine *)

Init ==
    /\ expenses = <<>>
    /\ filterCategory = ""
    /\ fields = DefaultValues
    /\ errors = NoErrors
    /\ submitted = FALSE
    /\ staleRows = {}
    /\ now = 1
    /\ assigned = <<>>
    /\ accepted = <<>>
    /\ lastEvent = Event("none", 0, FALSE, FALSE)

\* The onChange handler that register(name, ...) gives the field: the form
\* takes the value, and once the form has been submitted checks it again.
ChangeField(name, v) ==
    LET value == IF name = "category" THEN SelectValue(v) ELSE v
    IN /\ fields[name] # value
       /\ fields' = [fields EXCEPT ![name] = value]
       /\ errors' = IF submitted
                    THEN [errors EXCEPT ![name] = ValidateField(name, value)]
                    ELSE errors
       /\ lastEvent' = Event("change", 0, FALSE, FALSE)
       /\ UNCHANGED <<expenses, filterCategory, submitted, staleRows, now, assigned,
                      accepted>>

\* The render after a change of the list or the filter: the table is in the
\* page while the list is not empty; rows with a key that is not unique may
\* stay, and the rows that stayed before stay.
RenderRows ==
    IF Len(expenses') = 0 THEN staleRows' = {}
    ELSE \E left \in SUBSET LeftOver(Rows, VisibleExpenses(expenses', filterCategory'),
                                      expenses) :
             staleRows' = staleRows \cup left

\* onSubmit(data): the record is appended to the list and the form is reset.
onSubmit(data) ==
    LET newExpense == NewExpense(now, data)
    IN /\ expenses' = Append(expenses, newExpense)
       /\ fields' = DefaultValues
       /\ errors' = NoErrors
       /\ assigned' = Append(assigned, now)
       /\ accepted' = Append(accepted,
                             [id |-> now, description |-> data.description,
                              amount |-> data.amount, category |-> data.category])

\* A click on Submit: when the browser's validation fails nothing happens;
\* otherwise handleSubmit(onSubmit) checks the values and calls onSubmit with
\* them when it finds no error, and sets isSubmitted.
Submit(cap) ==
    IF ~NativeValid(fields)
    THEN /\ lastEvent' = Event("submit", 0, FALSE, FALSE)
         /\ UNCHANGED <<expenses, filterCategory, fields, errors, submitted, staleRows,
                        now, assigned, accepted>>
    ELSE /\ IF Validate(fields) = NoErrors
            THEN /\ Len(assigned) < cap
                 /\ onSubmit(fields)
            ELSE /\ errors' = Validate(fields)
                 /\ UNCHANGED <<expenses, fields, assigned, accepted>>
         /\ submitted' = TRUE
         /\ lastEvent' = Event("submit", 0, FALSE, TRUE)
         /\ UNCHANGED <<filterCategory, now>>
         /\ RenderRows

\* The onClick of a row's delete button, made with the list `list` and the
\* record of id `id`: setExpenses(list.filter((e) => e.id !== id)).
Remove(list, id) ==
    /\ expenses' = WithoutId(list, id)
    /\ accepted' = NotDeleted(accepted, id)
    /\ lastEvent' = Event("delete", id, id \in Ids(expenses), FALSE)
    /\ UNCHANGED <<filterCategory, fields, errors, submitted, now, assigned>>
    /\ RenderRows

\* A click on the delete button of the i-th row of the last render.
Delete(i) ==
    /\ i \in 1..Len(Rows)
    /\ Remove(expenses, Rows[i].id)

\* A click on the delete button of a row that stayed from an earlier render.
DeleteStale(r) ==
    /\ r \in staleRows
    /\ Remove(r.expenses, r.expense.id)

\* A change of the filter <select>, which is in the page while the list is not empty.
SetFilterCategory(c) ==
    /\ Len(expenses) > 0
    /\ filterCategory' = SelectValue(c)
    /\ lastEvent' = Event("filter", 0, FALSE, FALSE)
    /\ UNCHANGED <<expenses, fields, errors, submitted, now, assigned, accepted>>
    /\ RenderRows

\* The clock advances.
Tick ==
    /\ now < MaxClock
    /\ now' = now + 1
    /\ lastEvent' = Event("tick", 0, FALSE, FALSE)
    /\ UNCHANGED <<expenses, filterCategory, fields, errors, submitted, staleRows,
                   assigned, accepted>>

\* The runs that exercise the list: few inputs.
Next ==
    \/ \E in \in ListInputs : ChangeField(in[1], in[2])
    \/ Submit(MaxSubmits)
    \/ \E i \in 1..MaxSubmits : Delete(i)
    \/ \E r \in staleRows : DeleteStale(r)
    \/ \E c \in FilterInputs : SetFilterCategory(c)
    \/ Tick

Spec == Init /\ [][Next]_vars

\* The runs that exercise the form: every input may be typed.
NextForm ==
    \/ \E in \in FormInputs : ChangeField(in[1], in[2])
    \/ Submit(MaxFormSubmits)

SpecForm == Init /\ [][NextForm]_vars

----------------------------------------------------------------------------
(* The claims' own notions *)

IsBlank(d) == \A k \in 1..Len(d) : d[k] = " "

\* A candidate that violates a field rule as the claims state them.
ViolatesFieldRule(c) ==
    IF Len(c.description) < MinLength \/ Len(c.description) > MaxLength THEN TRUE
    ELSE IF c.category \notin Categories THEN TRUE
    ELSE IF c.amount = <<>> THEN TRUE
    ELSE c.amount[1] <= 0 \/ c.amount[1] > MaxAmount

\* A candidate whose amount is also at least 0.01 and a multiple of 0.01.
SatisfiesCodeRules(c) ==
    IF ViolatesFieldRule(c) THEN FALSE
    ELSE c.amount[1] >= MinAmount /\ c.amount[1] % AmountStep = 0

\* The description error as the claims state it, without the whitespace case.
StatedDescriptionError(d) ==
    IF d = <<>> THEN "required"
    ELSE IF Len(d) < MinLength THEN "minLength"
    ELSE IF Len(d) > MaxLength THEN "maxLength"
    ELSE ""

RECURSIVE OfCategory(_, _)
OfCategory(list, c) ==
    IF list = <<>> THEN <<>>
    ELSE IF Head(list).category = c
         THEN <<Head(list)>> \o OfCategory(Tail(list), c)
         ELSE OfCategory(Tail(list), c)

Displayed(list, c) == IF c = "" THEN list ELSE OfCategory(list, c)

Distinct(ids) == \A i, j \in 1..Len(ids) : i # j => ids[i] # ids[j]

WithoutPosition(list, k) == SubSeq(list, 1, k - 1) \o SubSeq(list, k + 1, Len(list))

\* The list after a submit is the list before it with one record added at
\* the end, which carries the values of the form.
OneRecordAppended ==
    /\ Len(expenses') = Len(expenses) + 1
    /\ SubSeq(expenses', 1, Len(expenses)) = expenses
    /\ expenses'[Len(expenses')].description = fields.description
    /\ expenses'[Len(expenses')].amount = fields.amount
    /\ expenses'[Len(expenses')].category = fields.category

\* After a delete of id, the list has no record of that id and still has
\* every record of another id that it had before.
OnlyThatIdRemoved(id) ==
    /\ id \notin Ids(expenses')
    /\ \A k \in 1..Len(expenses) :
           expenses[k].id # id => \E m \in 1..Len(expenses') : expenses'[m] = expenses[k]

\* After a delete, the list is the list before it without one of its records.
ExactlyOneRemoved == \E k \in 1..Len(expenses) : expenses' = WithoutPosition(expenses, k)

----------------------------------------------------------------------------
(* Properties *)

\* C1: a click on Submit while the form holds a candidate that violates a
\* field rule (description length outside [2,50], amount outside (0,10000],
\* category outside the enumeration) does not call onSubmit and leaves the
\* list the same as before it.
RejectedSubmitLeavesList ==
    [][(lastEvent'.type = "submit" /\ ViolatesFieldRule(fields))
          => (expenses' = expenses /\ assigned' = assigned)]_vars

\* C1 witness: a candidate violating a rule was submitted to a form whose
\* list holds a record, and was rejected with an error.
RejectedSubmitSeen ==
    /\ lastEvent.type = "submit"
    /\ lastEvent.fired
    /\ ViolatesFieldRule(fields)
    /\ errors # NoErrors
    /\ Len(expenses) > 0

\* C2 as stated: a click on Submit while the form holds a candidate with a
\* description of 2 to 50 characters, an amount in (0,10000] and a category of
\* the enumeration leaves the list as it was with exactly one record added at
\* the end, which carries the candidate's description, amount and category.
AcceptedSubmitAppends ==
    [][(lastEvent'.type = "submit" /\ ~ViolatesFieldRule(fields))
          => OneRecordAppended]_vars

\* C2 as amended: the same for a candidate whose amount is in [0.01,10000]
\* and a multiple of 0.01.
AcceptedSubmitAppendsFromCent ==
    [][(lastEvent'.type = "submit" /\ SatisfiesCodeRules(fields))
          => OneRecordAppended]_vars

\* C2 witness: a submit was accepted by a form whose list held a record.
AcceptedSubmitSeen ==
    /\ lastEvent.type = "submit"
    /\ lastEvent.fired
    /\ errors = NoErrors
    /\ Len(expenses) > 1
    /\ expenses[Len(expenses)].id = assigned[Len(assigned)]

\* C3: no two records of the list have the same id.
UniqueIds == Distinct([k \in 1..Len(expenses) |-> expenses[k].id])

\* C4: the id a submit assigns differs from every id assigned before it,
\* whether or not the record that had it is still in the list.
IdsNeverReused == Distinct(assigned)

DeleteRemovesExactlyOne ==
    [][(lastEvent'.type = "delete" /\ lastEvent'.id \in Ids(expenses))
          => ExactlyOneRemoved]_vars

DescriptionErrorsAsStated ==
    [][lastEvent'.type = "submit"
          => LET d == fields.description
             IN /\ IsBlank(d)
                    => (errors'.description = "required" /\ expenses' = expenses)
                /\ (~IsBlank(d) /\ Len(d) < MinLength)
                    => (errors'.description = "minLength" /\ expenses' = expenses)
                /\ Len(d) > MaxLength
                    => (errors'.description = "maxLength" /\ expenses' = expenses)]_vars

\* C9 as amended: a submit event of an empty description puts required on
\* description, of a non-empty one shorter than 2 (whitespace or not)
\* minLength, of one longer than 50 maxLength, and of a description of 2 to 50
\* characters, whitespace or not, no error; a click on Submit with a
\* description outside 2 to 50 characters leaves the list as it is.
DescriptionErrors ==
    [][lastEvent'.type = "submit"
          => LET d == fields.description
             IN /\ lastEvent'.fired
                    => errors'.description = StatedDescriptionError(d)
                /\ StatedDescriptionError(d) # "" => expenses' = expenses]_vars

\* C9 witness: a description of one whitespace character, with a valid amount
\* and category, was rejected as too short.
BlankDescriptionTooShortSeen ==
    /\ lastEvent.type = "submit"
    /\ lastEvent.fired
    /\ fields.description # <<>>
    /\ IsBlank(fields.description)
    /\ errors = [description |-> "minLength", amount |-> "", category |-> ""]

====
